---- MODULE Spec2Model ----
(***************************************************************************)
(* Model of the v_e_x_ backend: an actix-web server (backend/src/main.rs)  *)
(* with one route, GET /test (backend/src/routes/test.rs).                 *)
(*                                                                         *)
(* main is a sequential process (pc); once it is serving, every worker     *)
(* holds its own App built by the factory closure and requests are         *)
(* accepted, dispatched and answered concurrently.  The wall clock read by *)
(* chrono::Utc::now() is part of the environment: it normally advances and *)
(* may be set back (it is the system's real-time clock, not a monotonic    *)
(* one).  The calendar date of a timestamp is kept as a day number; the    *)
(* time of day and the fraction are formatted as to_rfc3339 formats them.  *)
(***************************************************************************)
EXTENDS Integers, Sequences, FiniteSets, TLC

\* ---------------------------------------------------------------- bounds
\* Number of requests a run may receive.
MaxRequests == 2

\* ------------------------------------------------------------ environment
Requests == 1..MaxRequests
\* The worker threads HttpServer starts (one App instance each).
Workers == {1, 2}

\* Requests that clients send: method, path, and what else the request carries
\* (nothing, or a query string, headers and a body).
Inputs ==
    { [method |-> "GET", path |-> "/test", extra |-> "none"],
      [method |-> "GET", path |-> "/test", extra |-> "query+headers+body"],
      [method |-> "POST", path |-> "/test", extra |-> "query+headers+body"],
      [method |-> "GET", path |-> "/unknown", extra |-> "none"] }

\* Values of the RUST_LOG environment variable ("unset": not in the environment).
RustLogValues == {"unset", "info"}

\* Instants the wall clock may show: seconds since the epoch and nanoseconds.
\* They straddle midnight of day 0; the fractions are a whole number of
\* milliseconds, zero, and a value that needs all nine digits.
ClockValues ==
    { [secs |-> 86399, nanos |-> 500000000],
      [secs |-> 86400, nanos |-> 0],
      [secs |-> 86400, nanos |-> 250125] }

\* a < b on instants.
Before(a, b) ==
    \/ a.secs < b.secs
    \/ a.secs = b.secs /\ a.nanos < b.nanos

\* ------------------------------------------------------------------ state
VARIABLES
    pc,         \* position of main
    rustLog,    \* RUST_LOG in the process environment
    maxLevel,   \* level filter of the global logger ("off": no logger installed)
    stdout,     \* lines written to standard output
    stderr,     \* lines written to standard error
    bound,      \* address the listener is bound to, or "none"
    exitCode,   \* process exit code, or -1 while the process runs
    routes,     \* per worker: the route table of its App
    clock,      \* the wall clock
    steppedBack,\* history: the wall clock has been set back at least once
    reqs        \* per request: its state, input, worker and response

vars == <<pc, rustLog, maxLevel, stdout, stderr, bound, exitCode, routes, clock,
          steppedBack, reqs>>

\* ------------------------------------------------------------- main.rs
\* The address main prints and binds.
BindAddr == "127.0.0.1:8080"

\* Variant: the startup line names the wildcard address while main binds loopback.
StartupLine_wildcard ==
    [kind |-> "startup", text |-> "Starting Actix Web server on http://",
     addr |-> "0.0.0.0:8080"]

\* println!("Starting Actix Web server on http://127.0.0.1:8080")
StartupLine ==
    [kind |-> "startup", text |-> "Starting Actix Web server on http://",
     addr |-> "127.0.0.1:8080"]

\* Log levels, most severe first.
LevelRank(l) ==
    CASE l = "off" -> 0
      [] l = "error" -> 1
      [] l = "warn" -> 2
      [] l = "info" -> 3
      [] l = "debug" -> 4
      [] l = "trace" -> 5

\* env_logger::init(): the filter comes from RUST_LOG; without it only errors pass.
EnvFilter(env) ==
    IF env = "unset" THEN "error" ELSE env

\* log_enabled!(level) under the installed filter.
LogEnabled(level) ==
    /\ level # "off"
    /\ LevelRank(level) <= LevelRank(maxLevel)

\* A body with no content.
EmptyBody == [empty |-> TRUE]

\* No response yet.
NoResp == [status |-> 0, contentType |-> "none", body |-> EmptyBody]

NewReq ==
    [state |-> "new", method |-> "GET", path |-> "/test", extra |-> "none",
     worker |-> 1, after |-> {}, resp |-> NoResp]

Init ==
    /\ pc = "start"
    /\ rustLog \in RustLogValues
    /\ maxLevel = "off"
    /\ stdout = <<>>
    /\ stderr = <<>>
    /\ bound = "none"
    /\ exitCode = -1
    /\ routes = [w \in Workers |-> {}]
    /\ clock \in ClockValues
    /\ steppedBack = FALSE
    /\ reqs = [r \in Requests |-> NewReq]

\* main.rs:7  env_logger::init()
InitLogger ==
    /\ pc = "start"
    /\ maxLevel' = EnvFilter(rustLog)
    /\ pc' = "logger_ready"
    /\ UNCHANGED <<rustLog, stdout, stderr, bound, exitCode, routes, clock,
                   steppedBack, reqs>>

\* main.rs:9  println!
PrintStartup ==
    /\ pc = "logger_ready"
    /\ stdout' = Append(stdout, StartupLine)
    /\ pc' = "announced"
    /\ UNCHANGED <<rustLog, maxLevel, stderr, bound, exitCode, routes, clock,
                   steppedBack, reqs>>

\* Errors bind can return.
BindErrors == {"AddrInUse", "PermissionDenied", "AddrNotAvailable"}

\* main.rs:11-16  HttpServer::new(factory).bind(addr) succeeds
BindOk ==
    /\ pc = "announced"
    /\ bound' = BindAddr
    /\ pc' = "bound"
    /\ UNCHANGED <<rustLog, maxLevel, stdout, stderr, exitCode, routes, clock,
                   steppedBack, reqs>>

\* Variant: the bind error is reported but not propagated (no `?`), and main
\* goes on to run the server.
BindFail_ignored ==
    /\ pc = "announced"
    /\ \E e \in BindErrors :
          stderr' = Append(stderr, [kind |-> "error", error |-> e])
    /\ pc' = "bound"
    /\ UNCHANGED <<rustLog, maxLevel, stdout, bound, exitCode, routes, clock,
                   steppedBack, reqs>>

\* main.rs:16  .bind(addr)? fails: main returns Err(e); the runtime reports it
\* on standard error and the process exits with code 1.
BindFail ==
    /\ pc = "announced"
    /\ \E e \in BindErrors :
          stderr' = Append(stderr, [kind |-> "error", error |-> e])
    /\ exitCode' = 1
    /\ pc' = "failed"
    /\ UNCHANGED <<rustLog, maxLevel, stdout, bound, routes, clock,
                   steppedBack, reqs>>

\* Variant: the route is registered with web::post() instead of web::get().
configure_test_routes_post ==
    { [method |-> "POST", path |-> "/test", handler |-> "test_endpoint"] }

\* routes/test.rs:12-14  configure_test_routes: the routes it registers.
configure_test_routes ==
    { [method |-> "GET", path |-> "/test", handler |-> "test_endpoint"] }

\* Variant: the App also routes another path to the handler.
AppFactory_extra_route ==
    configure_test_routes
        \cup { [method |-> "GET", path |-> "/unknown", handler |-> "test_endpoint"] }

\* main.rs:11-15  the factory closure: App::new().wrap(Logger).configure(...)
AppFactory ==
    configure_test_routes

\* main.rs:17-18  .run().await: every worker builds its App; the server serves.
Run ==
    /\ pc = "bound"
    /\ routes' = [w \in Workers |-> AppFactory]
    /\ pc' = "serving"
    /\ UNCHANGED <<rustLog, maxLevel, stdout, stderr, bound, exitCode, clock,
                   steppedBack, reqs>>

\* ---------------------------------------------------------- wall clock
\* The wall clock moves forward.
ClockAdvance ==
    /\ \E t \in ClockValues :
          /\ Before(clock, t)
          /\ clock' = t
    /\ UNCHANGED <<pc, rustLog, maxLevel, stdout, stderr, bound, exitCode, routes,
                   steppedBack, reqs>>

\* The wall clock is set back (NTP step, administrator).
ClockStepBack ==
    /\ \E t \in ClockValues :
          /\ Before(t, clock)
          /\ clock' = t
    /\ steppedBack' = TRUE
    /\ UNCHANGED <<pc, rustLog, maxLevel, stdout, stderr, bound, exitCode, routes,
                   reqs>>

\* --------------------------------------------------------- routes/test.rs
\* The k decimal digits of n, most significant first.
RECURSIVE Digits(_, _)
Digits(n, k) ==
    IF k = 0 THEN <<>> ELSE Append(Digits(n \div 10, k - 1), n % 10)

\* The value of a digit sequence (used to read a timestamp back).
RECURSIVE DigitsValue(_)
DigitsValue(ds) ==
    IF ds = <<>> THEN 0
    ELSE 10 * DigitsValue(SubSeq(ds, 1, Len(ds) - 1)) + ds[Len(ds)]

\* 10^k
RECURSIVE Pow10(_)
Pow10(k) ==
    IF k = 0 THEN 1 ELSE 10 * Pow10(k - 1)

\* Variant: the timestamp is formatted without its date.
to_rfc3339_time_only(t) ==
    [day |-> 0,
     hour |-> (t.secs % 86400) \div 3600,
     min |-> (t.secs % 3600) \div 60,
     sec |-> t.secs % 60,
     frac |-> IF t.nanos = 0 THEN <<>>
              ELSE IF t.nanos % 1000000 = 0 THEN Digits(t.nanos \div 1000000, 3)
              ELSE IF t.nanos % 1000 = 0 THEN Digits(t.nanos \div 1000, 6)
              ELSE Digits(t.nanos, 9),
     offset |-> "+00:00"]

\* DateTime<Utc>::to_rfc3339(): date "T" hh:mm:ss, the fraction with 0, 3, 6 or
\* 9 digits (the shortest that loses nothing), and the offset "+00:00".
to_rfc3339(t) ==
    [day |-> t.secs \div 86400,
     hour |-> (t.secs % 86400) \div 3600,
     min |-> (t.secs % 3600) \div 60,
     sec |-> t.secs % 60,
     frac |-> IF t.nanos = 0 THEN <<>>
              ELSE IF t.nanos % 1000000 = 0 THEN Digits(t.nanos \div 1000000, 3)
              ELSE IF t.nanos % 1000 = 0 THEN Digits(t.nanos \div 1000, 6)
              ELSE Digits(t.nanos, 9),
     offset |-> "+00:00"]

\* Variant: the status field says "ok".
TestResponse_ok(now) ==
    [status |-> 200,
     contentType |-> "application/json",
     body |-> [message |-> "Test endpoint is working!",
               status |-> "ok",
               timestamp |-> to_rfc3339(now)]]

\* test_endpoint: HttpResponse::Ok().json(json!({...})) with the clock read now.
TestResponse(now) ==
    [status |-> 200,
     contentType |-> "application/json",
     body |-> [message |-> "Test endpoint is working!",
               status |-> "success",
               timestamp |-> to_rfc3339(now)]]

\* Variant: routes are matched on the path alone (web::to instead of web::get().to).
MatchingRoutes_any_method(w, r) ==
    { rt \in routes[w] : rt.path = reqs[r].path }

\* Routing of one App: the route whose path and method guard match, if any.
MatchingRoutes(w, r) ==
    { rt \in routes[w] : rt.path = reqs[r].path /\ rt.method = reqs[r].method }

\* A connection is accepted by a worker and the request read.
Accept(r) ==
    /\ pc = "serving"
    /\ reqs[r].state = "new"
    /\ \A q \in Requests : q < r => reqs[q].state # "new"
    /\ \E in \in Inputs, w \in Workers :
          reqs' = [reqs EXCEPT ![r] =
                     [state |-> "accepted", method |-> in.method, path |-> in.path,
                      extra |-> in.extra,
                      worker |-> w,
                      after |-> { q \in Requests : reqs[q].state = "done" },
                      resp |-> NoResp]]
    /\ UNCHANGED <<pc, rustLog, maxLevel, stdout, stderr, bound, exitCode, routes,
                   clock, steppedBack>>

\* What a client reads back from a timestamp (an RFC3339 parser).
parse_rfc3339(ts) ==
    [secs |-> ts.day * 86400 + ts.hour * 3600 + ts.min * 60 + ts.sec,
     nanos |-> DigitsValue(ts.frac) * Pow10(9 - Len(ts.frac))]

\* Requests that have a response.
Answered(r) ==
    reqs[r].state \in {"handled", "done"}

\* Answered requests whose response carries a JSON body.
JsonAnswered(r) ==
    /\ Answered(r)
    /\ reqs[r].resp.contentType = "application/json"

\* Variant: the timestamp is computed once and reused for later requests.
test_endpoint_cached(r) ==
    /\ reqs[r].state = "accepted"
    /\ MatchingRoutes(reqs[r].worker, r) # {}
    /\ LET earlier == { q \in Requests : JsonAnswered(q) }
           now == IF earlier = {} THEN clock
                  ELSE parse_rfc3339(
                         reqs[CHOOSE q \in earlier : TRUE].resp.body.timestamp)
       IN reqs' = [reqs EXCEPT ![r].state = "handled",
                               ![r].resp = TestResponse(now)]
    /\ UNCHANGED <<pc, rustLog, maxLevel, stdout, stderr, bound, exitCode, routes,
                   clock, steppedBack>>

\* Variant: the handler takes a lock shared by the worker's requests and fails
\* when another request of the same worker holds a response not yet sent.
test_endpoint_shared(r) ==
    /\ reqs[r].state = "accepted"
    /\ MatchingRoutes(reqs[r].worker, r) # {}
    /\ LET busy == \E q \in Requests \ {r} :
                      /\ reqs[q].state = "handled"
                      /\ reqs[q].worker = reqs[r].worker
       IN reqs' = [reqs EXCEPT ![r].state = "handled",
                               ![r].resp =
                                   IF busy
                                   THEN [status |-> 500, contentType |-> "none",
                                         body |-> EmptyBody]
                                   ELSE TestResponse(clock)]
    /\ UNCHANGED <<pc, rustLog, maxLevel, stdout, stderr, bound, exitCode, routes,
                   clock, steppedBack>>

\* routes/test.rs:4-10  the request matched GET /test: test_endpoint runs.
test_endpoint(r) ==
    /\ reqs[r].state = "accepted"
    /\ MatchingRoutes(reqs[r].worker, r) # {}
    /\ reqs' = [reqs EXCEPT ![r].state = "handled",
                            ![r].resp = TestResponse(clock)]
    /\ UNCHANGED <<pc, rustLog, maxLevel, stdout, stderr, bound, exitCode, routes,
                   clock, steppedBack>>

\* No route matched: the framework's default service answers (404 Not Found;
\* 405 Method Not Allowed is the other default for a path whose method differs).
DefaultStatuses(w, r) ==
    IF \E rt \in routes[w] : rt.path = reqs[r].path THEN {404, 405} ELSE {404}

default_service(r) ==
    /\ reqs[r].state = "accepted"
    /\ MatchingRoutes(reqs[r].worker, r) = {}
    /\ \E st \in DefaultStatuses(reqs[r].worker, r) :
          reqs' = [reqs EXCEPT ![r].state = "handled",
                               ![r].resp = [status |-> st, contentType |-> "none",
                                            body |-> EmptyBody]]
    /\ UNCHANGED <<pc, rustLog, maxLevel, stdout, stderr, bound, exitCode, routes,
                   clock, steppedBack>>

\* The access log line of Logger::default() for a request.
AccessLine(r) ==
    [kind |-> "access", req |-> r, method |-> reqs[r].method, path |-> reqs[r].path,
     status |-> reqs[r].resp.status]

\* main.rs:13  Logger middleware: once the response has been sent it logs the
\* request with log::info!; env_logger writes enabled records to standard error.
Finish(r) ==
    /\ reqs[r].state = "handled"
    /\ reqs' = [reqs EXCEPT ![r].state = "done"]
    /\ stderr' = IF LogEnabled("info") THEN Append(stderr, AccessLine(r)) ELSE stderr
    /\ UNCHANGED <<pc, rustLog, maxLevel, stdout, bound, exitCode, routes,
                   clock, steppedBack>>

Next ==
    \/ InitLogger
    \/ PrintStartup
    \/ BindOk
    \/ BindFail
    \/ Run
    \/ ClockAdvance
    \/ ClockStepBack
    \/ \E r \in Requests : Accept(r)
    \/ \E r \in Requests : test_endpoint(r)
    \/ \E r \in Requests : default_service(r)
    \/ \E r \in Requests : Finish(r)

Spec == Init /\ [][Next]_vars

\* ================================================================ claims
\* Requests for the registered route.
IsGetTest(r) ==
    /\ reqs[r].method = "GET"
    /\ reqs[r].path = "/test"

\* A timestamp is well-formed RFC3339: time of day in range, a fraction of
\* 0, 3, 6 or 9 decimal digits, and a UTC offset.
IsRfc3339(ts) ==
    /\ ts.day >= 0
    /\ ts.hour \in 0..23
    /\ ts.min \in 0..59
    /\ ts.sec \in 0..59
    /\ Len(ts.frac) \in {0, 3, 6, 9}
    /\ \A i \in DOMAIN ts.frac : ts.frac[i] \in 0..9
    /\ ts.offset = "+00:00"

\* C1: once the server is serving, every GET /test is routed to the handler
\* (whatever else the request carries) and its response has status 200 and is
\* the handler's JSON response, never an error response.
C1_GetTestIs200 ==
    \A r \in Requests :
        /\ (reqs[r].state # "new") => pc = "serving"
        /\ (reqs[r].state = "accepted" /\ IsGetTest(r))
              => MatchingRoutes(reqs[r].worker, r) # {}
        /\ (Answered(r) /\ IsGetTest(r))
              => /\ reqs[r].resp.status = 200
                 /\ reqs[r].resp.contentType = "application/json"

C1_Witness ==
    \E r \in Requests :
        /\ reqs[r].state = "done"
        /\ IsGetTest(r)
        /\ reqs[r].extra = "query+headers+body"
        /\ reqs[r].resp.status = 200

\* C2: every response of the test handler has a JSON body with exactly the
\* fields message, status and timestamp, where message is "Test endpoint is
\* working!" and status is "success", however many requests were served before.
C2_FixedFields ==
    \A r \in Requests :
        (Answered(r) /\ (IsGetTest(r) \/ reqs[r].resp.status = 200
                          \/ reqs[r].resp.contentType = "application/json"))
           => /\ DOMAIN reqs[r].resp.body = {"message", "status", "timestamp"}
              /\ reqs[r].resp.body.message = "Test endpoint is working!"
              /\ reqs[r].resp.body.status = "success"

C2_Witness ==
    \E r1, r2 \in Requests :
        /\ r1 \in reqs[r2].after
        /\ JsonAnswered(r1)
        /\ JsonAnswered(r2)
        /\ reqs[r2].resp.body.message = "Test endpoint is working!"
        /\ reqs[r2].resp.body.status = "success"

\* C3: a request to /test with a method other than GET never reaches
\* test_endpoint: it gets the framework's default response (404 or 405, empty
\* body), not status 200 and not the success payload.
C3_MethodRestricted ==
    \A r \in Requests :
        /\ (reqs[r].state = "accepted" /\ reqs[r].path = "/test"
              /\ reqs[r].method # "GET")
              => MatchingRoutes(reqs[r].worker, r) = {}
        /\ (Answered(r) /\ reqs[r].path = "/test" /\ reqs[r].method # "GET")
              => /\ reqs[r].resp.status \in {404, 405}
                 /\ reqs[r].resp.contentType # "application/json"
                 /\ reqs[r].resp.body = EmptyBody

C3_Witness ==
    \E r \in Requests :
        /\ reqs[r].state = "done"
        /\ reqs[r].path = "/test"
        /\ reqs[r].method = "POST"
        /\ reqs[r].resp.status # 200

\* C4: while serving, every App's route table holds exactly one mapping,
\* GET /test -> test_endpoint, and a request to any other path gets the default
\* not-found response (404, empty body), never the success payload.
C4_SingleRoute ==
    /\ pc = "serving"
          => \A w \in Workers :
                /\ Cardinality(routes[w]) = 1
                /\ routes[w] = { [method |-> "GET", path |-> "/test",
                                  handler |-> "test_endpoint"] }
    /\ \A r \in Requests :
          (Answered(r) /\ reqs[r].path # "/test")
             => /\ reqs[r].resp.status = 404
                /\ reqs[r].resp.contentType # "application/json"
                /\ reqs[r].resp.body = EmptyBody

C4_Witness ==
    \E r \in Requests :
        /\ reqs[r].state = "done"
        /\ reqs[r].method = "GET"
        /\ reqs[r].path = "/unknown"
        /\ reqs[r].resp.status = 404

\* Two GET /test requests in succession: r2 was sent after r1's response was
\* received, and both have been answered.
InSuccession(r1, r2) ==
    /\ r1 \in reqs[r2].after
    /\ IsGetTest(r1)
    /\ IsGetTest(r2)
    /\ JsonAnswered(r1)
    /\ JsonAnswered(r2)

\* The two responses agree in status and in every body field but timestamp.
SameButTimestamp(r1, r2) ==
    /\ reqs[r1].resp.status = reqs[r2].resp.status
    /\ reqs[r1].resp.contentType = reqs[r2].resp.contentType
    /\ DOMAIN reqs[r1].resp.body = DOMAIN reqs[r2].resp.body
    /\ \A f \in DOMAIN reqs[r1].resp.body \ {"timestamp"} :
          reqs[r1].resp.body[f] = reqs[r2].resp.body[f]

\* The second timestamp is not earlier than the first.
NotEarlier(r1, r2) ==
    ~Before(parse_rfc3339(reqs[r2].resp.body.timestamp),
            parse_rfc3339(reqs[r1].resp.body.timestamp))

\* C5 as stated: two GET /test in succession give responses identical but for
\* timestamp, and the second timestamp is not earlier than the first, for every
\* behaviour of the wall clock.
C5_Original ==
    \A r1, r2 \in Requests :
        InSuccession(r1, r2)
           => /\ SameButTimestamp(r1, r2)
              /\ NotEarlier(r1, r2)

\* C5 amended: two GET /test in succession give responses identical but for
\* timestamp, and the second timestamp is not earlier than the first as long as
\* the wall clock has not been set back.
C5_Amended ==
    \A r1, r2 \in Requests :
        InSuccession(r1, r2)
           => /\ SameButTimestamp(r1, r2)
              /\ (~steppedBack => NotEarlier(r1, r2))

C5_Witness ==
    \E r1, r2 \in Requests :
        /\ InSuccession(r1, r2)
        /\ ~steppedBack
        /\ Before(parse_rfc3339(reqs[r1].resp.body.timestamp),
                  parse_rfc3339(reqs[r2].resp.body.timestamp))

\* C6: the timestamp of a response is the wall clock's value in the step where
\* the handler runs for that request (after its arrival, before its response is
\* sent), formatted as RFC3339; once produced the response does not change.
C6_Step ==
    \A r \in Requests :
        /\ (reqs[r].state = "accepted" /\ reqs'[r].state = "handled"
              /\ reqs'[r].resp.contentType = "application/json")
              => /\ IsRfc3339(reqs'[r].resp.body.timestamp)
                 /\ parse_rfc3339(reqs'[r].resp.body.timestamp) = clock
                 /\ clock' = clock
        /\ Answered(r) => reqs'[r].resp = reqs[r].resp

C6_TimestampIsNow ==
    [][C6_Step]_vars

C6_Witness ==
    \E r1, r2 \in Requests :
        /\ InSuccession(r1, r2)
        /\ reqs[r1].resp.body.timestamp # reqs[r2].resp.body.timestamp
        /\ parse_rfc3339(reqs[r2].resp.body.timestamp) = clock

\* The bind failed in this run (the error was reported).
BindFailed ==
    \E i \in DOMAIN stderr : stderr[i].kind = "error"

\* C7: if the bind fails, main has returned the error, the process has exited
\* with a non-zero code, nothing is bound, and the server is never serving: no
\* App is built and no request is accepted or answered.
C7_BindFailureIsFatal ==
    BindFailed
       => /\ pc = "failed"
          /\ exitCode = 1
          /\ bound = "none"
          /\ \A w \in Workers : routes[w] = {}
          /\ \A r \in Requests : reqs[r].state = "new"

C7_Witness ==
    /\ BindFailed
    /\ pc = "failed"
    /\ exitCode = 1

\* The access log lines of request r on an output stream.
AccessLines(stream, r) ==
    { i \in DOMAIN stream : stream[i].kind = "access" /\ stream[i].req = r }

\* C8: every request whose handling is complete has exactly one access log
\* line on standard output, with its method, path and response status, whatever
\* the environment is.
C8_OneAccessLineOnStdout ==
    \A r \in Requests :
        reqs[r].state = "done"
           => /\ Cardinality(AccessLines(stdout, r)) = 1
              /\ \A i \in AccessLines(stdout, r) :
                    /\ stdout[i].method = reqs[r].method
                    /\ stdout[i].path = reqs[r].path
                    /\ stdout[i].status = reqs[r].resp.status

\* C9 (state part): whatever else is in flight and whichever worker serves it,
\* a GET /test response is the fixed response with its own timestamp, and every
\* worker's route table stays what the factory built.
C9_Independent ==
    /\ \A r \in Requests :
          (Answered(r) /\ IsGetTest(r))
             => /\ reqs[r].resp.status = 200
                /\ reqs[r].resp.contentType = "application/json"
                /\ reqs[r].resp.body.message = "Test endpoint is working!"
                /\ reqs[r].resp.body.status = "success"
    /\ pc = "serving" => \A w \in Workers : routes[w] = AppFactory

\* C9 (step part): a step that handles a request changes that request alone:
\* no other request, no route table, and nothing of the server's state.
C9_Step ==
    \A r \in Requests :
        (reqs[r].state = "accepted" /\ reqs'[r].state = "handled")
           => /\ \A q \in Requests \ {r} : reqs'[q] = reqs[q]
              /\ UNCHANGED <<pc, maxLevel, stdout, stderr, bound, exitCode, routes>>

\* C9: the handler is stateless and safe under concurrency.
C9_Stateless ==
    []C9_Independent /\ [][C9_Step]_vars

C9_Witness ==
    \E r1, r2 \in Requests :
        /\ r1 # r2
        /\ IsGetTest(r1)
        /\ IsGetTest(r2)
        /\ reqs[r1].state = "handled"
        /\ reqs[r2].state = "handled"
        /\ reqs[r1].worker = reqs[r2].worker
        /\ reqs[r1].resp.status = 200
        /\ reqs[r2].resp.status = 200

\* C10: main initializes the logger, then prints the startup line, then binds:
\* the line is on standard output before the bind is attempted and in every run
\* that gets there (also when the bind fails), it names 127.0.0.1:8080, the
\* address that is bound, and it precedes the first accepted request.
C10_BootstrapOrder ==
    /\ pc # "start" => maxLevel # "off"
    /\ pc \in {"start", "logger_ready"} => (stdout = <<>> /\ bound = "none")
    /\ pc \notin {"start", "logger_ready"}
          => /\ Len(stdout) = 1
             /\ stdout[1].kind = "startup"
             /\ stdout[1].addr = "127.0.0.1:8080"
    /\ bound # "none" => (Len(stdout) = 1 /\ bound = stdout[1].addr)
    /\ pc = "failed" => bound = "none"
    /\ \A r \in Requests :
          reqs[r].state # "new" => (Len(stdout) = 1 /\ bound = stdout[1].addr)

C10_Witness ==
    /\ pc = "failed"
    /\ Len(stdout) = 1
    /\ stdout[1].addr = "127.0.0.1:8080"
    /\ bound = "none"

====
